---------------------------- MODULE Spec2Model ----------------------------
(***************************************************************************)
(* Model of the payment / banking reconciliation core of the MCP Fintech   *)
(* Platform backend (backend/app/services).                                *)
(*                                                                         *)
(*   - PaymentService (payment_service.py): provider registry and routing  *)
(*   - payment_transaction_service.py: Payment / Refund / PaymentMethod    *)
(*     rows and the operations that write them                             *)
(*                                                                         *)
(*   - BankingService (banking_service.py), PlaidService.handle_webhook    *)
(*     (plaid_service.py) and the banking endpoints (api/endpoints/        *)
(*     banking.py): PlaidItem / PlaidAccount / PlaidTransaction rows       *)
(*                                                                         *)
(* Every handler is one action (its adapter call and its single commit     *)
(* included).  The payment-method handlers are split into their read and   *)
(* commit halves for the specification that interleaves two requests.      *)
(* Timestamps (created_at / updated_at) and the free-form description and  *)
(* metadata columns are not modelled: no guard reads them.                 *)
(***************************************************************************)
EXTENDS Integers, Sequences, FiniteSets, TLC

VARIABLES
    providers,         \* PaymentService.providers: provider type -> adapter or None
    default_provider,  \* PaymentService.default_provider
    regLog,            \* history: the successful register_provider calls, in order
    payments,          \* table payments: sequence of rows, index = Payment.id
    createLog,         \* history: the id, amount and currency the adapter returned for each row
    refunds,           \* table refunds: sequence of rows
    methods,           \* table payment_methods: sequence of rows, index = id
    txn,               \* per request worker: the half-done payment-method request
    ret,               \* outcome of the most recent call
    items,             \* table plaid_items: PlaidItem.id -> row
    accounts,          \* table plaid_accounts: PlaidAccount.id -> row
    transactions,      \* table plaid_transactions: PlaidTransaction.id -> row
    remote,            \* what the rail holds: the accounts it reports for each item
    users,             \* table users: User.id -> row
    FIRST_ADMIN_CREATED,  \* settings.FIRST_ADMIN_CREATED
    mock_user,         \* the MFA fields of the user the MFA functions work on
    mfaLog,            \* history: recovery codes issued so far, and those that verified a login
    deliveries,        \* webhook deliveries in progress, one per request worker, and their round
    response           \* outcome of the most recent banking / webhook / auth request

\* The variables of the payment side, and those of the banking side
payVars == <<providers, default_provider, regLog, payments, createLog, refunds, methods,
             txn, ret>>

bankVars == <<items, accounts, transactions, remote>>

authVars == <<users, FIRST_ADMIN_CREATED, mock_user, mfaLog>>

hookVars == <<deliveries>>

vars == <<payVars, bankVars, authVars, hookVars, response>>

None == "None"

----------------------------------------------------------------------------
(* Bounds of the model *)

MaxRegs == 3
MaxPayments == 1
MaxMethods == 2
MaxWorkers == 2
MaxItems == 2
MaxAccounts == 2
MaxTxns == 1
MaxUsers == 3
MaxGenerations == 2
RecoveryCount == 2

----------------------------------------------------------------------------
(* Enumerations of payment_service.py *)

PaymentStatus == {"pending", "processing", "completed", "failed", "refunded", "canceled"}

PaymentProvider == {"stripe", "paypal", "plaid", "ach"}

PaymentMethodType == {"credit_card", "bank_transfer"}

Users == {"u1", "u2"}

\* The provider types payment requests name, and the one registered when payments
\* are checked
PayTypes == {"stripe", "paypal"}

RegisteredPayTypes == {"stripe"}

\* The users who create payments (the refund requesters range over Users)
Payers == {"u1"}

\* The provider types that have an adapter class in payment_providers/
AdapterTypes == {"stripe", "paypal", "plaid"}

\* The adapter class written for each of them
AdapterOf(t) ==
    CASE t = "stripe" -> "StripePaymentProvider"
      [] t = "paypal" -> "PayPalPaymentProvider"
      [] t = "plaid" -> "PlaidACHPaymentProvider"

\* Request amounts, in thousandths of a currency unit (amount: float, gt 0)
RequestAmounts == {1005}

\* RefundBase.amount = None (full refund)
NoAmount == -1

\* Refund amounts a request may carry
RefundAmounts == {NoAmount, 2000}

\* PaymentCreate.currency_uppercase: the request currency is upper case
RequestCurrencies == {"USD"}

Lower(c) == IF c = "USD" THEN "usd" ELSE c

Upper(c) == IF c = "usd" THEN "USD" ELSE c

----------------------------------------------------------------------------
(* Outcome of the most recent call *)

\* op, pid, user, amount: the call and its arguments; result: how it returned;
\* adapter: the adapter it invoked; status: the status in the adapter's response
RetFull(op, pid, user, amount, result, adapter, status) ==
    [op |-> op, pid |-> pid, user |-> user, amount |-> amount, result |-> result,
     adapter |-> adapter, status |-> status, provider_type |-> None]

RetS(op, pid, user, result, adapter, status) ==
    RetFull(op, pid, user, NoAmount, result, adapter, status)

Ret(op, pid, user, result, adapter) == RetS(op, pid, user, result, adapter, None)

RetR(pid, user, amount, result, adapter) ==
    RetFull("create_refund", pid, user, amount, result, adapter, None)

----------------------------------------------------------------------------
(* PaymentService: the provider registry *)

RegisteredDefault_always(cur, t, set_as_default) == t

\* register_provider line 141-142: the default after a successful registration
RegisteredDefault(cur, t, set_as_default) ==
    IF set_as_default \/ cur = None THEN t ELSE cur

register_provider_early(provider_type, provider, init_ok, set_as_default) ==
    /\ Len(regLog) < MaxRegs
    /\ providers' = [providers EXCEPT ![provider_type] = provider]
    /\ default_provider' =
           RegisteredDefault(default_provider, provider_type, set_as_default)
    /\ IF init_ok
       THEN /\ regLog' = Append(regLog, [type |-> provider_type,
                                         set_as_default |-> set_as_default])
            /\ ret' = Ret("register_provider", 0, None, "ok", None)
       ELSE /\ ret' = Ret("register_provider", 0, None, "PaymentError", None)
            /\ UNCHANGED regLog
    /\ UNCHANGED <<bankVars, authVars, hookVars, response>>
    /\ UNCHANGED <<payments, createLog, refunds, methods, txn>>

\* register_provider lines 138-142: initialize first, then the registry and the default
register_provider(provider_type, provider, init_ok, set_as_default) ==
    /\ Len(regLog) < MaxRegs
    /\ IF ~init_ok
       THEN \* provider.initialize(config) raises PaymentError
            /\ ret' = Ret("register_provider", 0, None, "PaymentError", None)
            /\ UNCHANGED <<providers, default_provider, regLog>>
       ELSE /\ providers' = [providers EXCEPT ![provider_type] = provider]
            /\ default_provider' =
                   RegisteredDefault(default_provider, provider_type, set_as_default)
            /\ regLog' = Append(regLog, [type |-> provider_type,
                                         set_as_default |-> set_as_default])
            /\ ret' = Ret("register_provider", 0, None, "ok", None)
    /\ UNCHANGED <<bankVars, authVars, hookVars, response>>
    /\ UNCHANGED <<payments, createLog, refunds, methods, txn>>

\* get_provider: [ok, adapter]; ok = FALSE is the PaymentError it raises
get_provider(provider_type) ==
    IF provider_type = None /\ default_provider = None
    THEN [ok |-> FALSE, adapter |-> None]
    ELSE LET t == IF provider_type = None THEN default_provider ELSE provider_type
         IN  IF providers[t] = None
             THEN [ok |-> FALSE, adapter |-> None]
             ELSE [ok |-> TRUE, adapter |-> providers[t]]

ServiceOps == {"create_payment", "get_payment", "cancel_payment", "refund_payment"}

\* PaymentService.create_payment / get_payment / cancel_payment / refund_payment called
\* on the facade itself: resolve the provider, then invoke its adapter
service_call(op, provider_type) ==
    /\ LET g == get_provider(provider_type)
       IN  ret' = [Ret(op, 0, None, IF g.ok THEN "routed" ELSE "PaymentError", g.adapter)
                     EXCEPT !.provider_type = provider_type]
    /\ UNCHANGED <<bankVars, authVars, hookVars, response>>
    /\ UNCHANGED <<providers, default_provider, regLog, payments, createLog, refunds,
                   methods, txn>>

----------------------------------------------------------------------------
(* Provider adapters (PaymentProviderBase): status vocabularies and responses *)

StripeNative == {"requires_payment_method", "requires_confirmation", "requires_action",
                 "processing", "requires_capture", "succeeded", "canceled", "unknown"}

PayPalNative == {"CREATED", "SAVED", "APPROVED", "VOIDED", "COMPLETED",
                 "PAYER_ACTION_REQUIRED", "UNKNOWN"}

_map_stripe_status(s) ==
    CASE s \in {"requires_payment_method", "requires_confirmation", "requires_action"}
             -> "pending"
      [] s \in {"processing", "requires_capture"} -> "processing"
      [] s = "succeeded" -> "completed"
      [] s = "canceled" -> "canceled"
      [] OTHER -> "failed"

_map_paypal_status(s) ==
    CASE s \in {"CREATED", "SAVED", "PAYER_ACTION_REQUIRED"} -> "pending"
      [] s = "APPROVED" -> "processing"
      [] s = "VOIDED" -> "canceled"
      [] s = "COMPLETED" -> "completed"
      [] OTHER -> "failed"

\* The statuses an adapter's create_payment / get_payment can report
ReportedStatuses(adapter) ==
    IF adapter = "StripePaymentProvider"
    THEN {_map_stripe_status(s) : s \in StripeNative}
    ELSE {_map_paypal_status(s) : s \in PayPalNative}

\* amount of the response: Stripe int(amount * 100) / 100, PayPal echoes the value
ResponseAmount(adapter, amount) ==
    IF adapter = "StripePaymentProvider" THEN (amount \div 10) * 10 ELSE amount

\* currency of the response: Stripe reports lower case, PayPal the upper-case code
ResponseCurrency(adapter, currency) ==
    IF adapter = "StripePaymentProvider" THEN Lower(currency) ELSE Upper(currency)

\* code of the PaymentProviderError an adapter raises: Stripe getattr(e, "code", None),
\* an opaque value of the Stripe library written here e.code; PayPal a fixed code
ErrorCodes(adapter) ==
    IF adapter = "StripePaymentProvider"
    THEN {"e.code"}
    ELSE {"token_error", "api_error", "invalid_state", "no_capture"}

\* How an adapter call ends: a response, a PaymentProviderError, or another
\* exception (the provider modules raise NameError where they name ProviderEnum)
Outcomes == {"ok", "error", "crash"}

\* The external id a rail assigns to its n-th payment: a rail never reissues an id
ExtId(n) == n

\* create_payment of an adapter: the responses it can return for the rail's n-th payment
CreateResponses(adapter, amount, currency, n) ==
    {[payment_id |-> ExtId(n), status |-> s,
      amount |-> ResponseAmount(adapter, amount),
      currency |-> ResponseCurrency(adapter, currency)] :
        s \in ReportedStatuses(adapter)}

----------------------------------------------------------------------------
(* payment_transaction_service.py: payments *)

NewPayment_fromRequest(user_id, payment_data, resp) ==
    [external_id |-> resp.payment_id, user_id |-> user_id,
     amount |-> payment_data.amount, currency |-> payment_data.currency,
     status |-> resp.status, provider |-> payment_data.provider,
     provider_response |-> "create", error_message |-> None, error_code |-> None]

\* create_payment lines 52-65: the row built from the adapter's response
NewPayment(user_id, payment_data, resp) ==
    [external_id |-> resp.payment_id, user_id |-> user_id,
     amount |-> resp.amount, currency |-> resp.currency,
     status |-> resp.status, provider |-> payment_data.provider,
     provider_response |-> "create", error_message |-> None, error_code |-> None]

create_payment(user_id, payment_data) ==
    /\ Len(payments) < MaxPayments
    /\ LET g == get_provider(payment_data.provider)
       IN  IF ~g.ok
           THEN /\ ret' = Ret("create_payment", 0, user_id, "PaymentError", None)
                /\ UNCHANGED <<payments, createLog>>
           ELSE \E o \in Outcomes :
                  IF o = "ok"
                  THEN \E resp \in CreateResponses(g.adapter, payment_data.amount,
                                                    payment_data.currency,
                                                    Len(payments) + 1) :
                         /\ payments' = Append(payments,
                                               NewPayment(user_id, payment_data, resp))
                         /\ createLog' = Append(createLog,
                                [payment_id |-> resp.payment_id, amount |-> resp.amount,
                                 currency |-> resp.currency])
                         /\ ret' = RetS("create_payment", Len(payments) + 1, user_id,
                                        "ok", g.adapter, resp.status)
                  ELSE /\ ret' = Ret("create_payment", 0, user_id,
                                     IF o = "error" THEN "PaymentProviderError"
                                                    ELSE "Exception", g.adapter)
                       /\ UNCHANGED <<payments, createLog>>
    /\ UNCHANGED <<bankVars, authVars, hookVars, response>>
    /\ UNCHANGED <<providers, default_provider, regLog, refunds, methods, txn>>

\* update_payment_status lines 111-121
UpdatedPayment(p, status, provider_response, error_message, error_code) ==
    [p EXCEPT !.status = status,
              !.provider_response =
                  IF provider_response # None THEN provider_response ELSE @,
              !.error_message = IF error_message # None THEN error_message ELSE @,
              !.error_code = IF error_code # None THEN error_code ELSE @]

update_payment_status(payment_id, status, provider_response, error_message, error_code) ==
    /\ IF payment_id \notin DOMAIN payments
       THEN /\ ret' = Ret("update_payment_status", payment_id, None, "None", None)
            /\ UNCHANGED payments
       ELSE /\ payments' = [payments EXCEPT ![payment_id] =
                   UpdatedPayment(@, status, provider_response, error_message,
                                  error_code)]
            /\ ret' = Ret("update_payment_status", payment_id, None, "ok", None)
    /\ UNCHANGED <<bankVars, authVars, hookVars, response>>
    /\ UNCHANGED <<providers, default_provider, regLog, createLog, refunds, methods, txn>>

\* lines 159-160, 203-204, 270-271: the error stored on the row
WithError(p, error_message, error_code) ==
    [p EXCEPT !.error_message = error_message, !.error_code = error_code]

Synced_all(p, resp_status) ==
    [p EXCEPT !.status = resp_status, !.provider_response = "get",
              !.external_id = 0]

\* sync_payment_status lines 148-149: status and response overwritten
Synced(p, resp_status) ==
    [p EXCEPT !.status = resp_status, !.provider_response = "get"]

sync_payment_status(payment_id) ==
    /\ IF payment_id \notin DOMAIN payments
       THEN /\ ret' = Ret("sync_payment_status", payment_id, None, "None", None)
            /\ UNCHANGED payments
       ELSE LET p == payments[payment_id]
                g == get_provider(p.provider)
            IN  IF ~g.ok
                THEN \* PaymentError of get_provider, caught at line 157
                     /\ payments' = [payments EXCEPT ![payment_id] =
                            WithError(p, "not_registered", None)]
                     /\ ret' = Ret("sync_payment_status", payment_id, None, "error_recorded",
                                   None)
                ELSE \E o \in Outcomes :
                       CASE o = "ok" ->
                              \E s \in ReportedStatuses(g.adapter) :
                                /\ payments' = [payments EXCEPT ![payment_id] =
                                                    Synced(p, s)]
                                /\ ret' = RetS("sync_payment_status", payment_id, None,
                                               "ok", g.adapter, s)
                         [] o = "error" ->
                              \E code \in ErrorCodes(g.adapter) :
                              /\ payments' = [payments EXCEPT ![payment_id] =
                                     WithError(p, "provider_error", code)]
                              /\ ret' = Ret("sync_payment_status", payment_id, None,
                                            "error_recorded", g.adapter)
                         [] o = "crash" ->
                              /\ ret' = Ret("sync_payment_status", payment_id, None,
                                            "Exception", g.adapter)
                              /\ UNCHANGED payments
    /\ UNCHANGED <<bankVars, authVars, hookVars, response>>
    /\ UNCHANGED <<providers, default_provider, regLog, createLog, refunds, methods, txn>>

Cancellable_any(status) == TRUE

\* cancel_payment line 178
Cancellable(status) == status \in {"pending", "processing"}

\* cancel_payment lines 192-193
Canceled(p) == [p EXCEPT !.status = "canceled", !.provider_response = "cancel"]

cancel_payment(payment_id) ==
    /\ IF payment_id \notin DOMAIN payments
       THEN /\ ret' = Ret("cancel_payment", payment_id, None, "None", None)
            /\ UNCHANGED payments
       ELSE LET p == payments[payment_id]
                g == get_provider(p.provider)
            IN  IF ~Cancellable(p.status)
                THEN /\ ret' = Ret("cancel_payment", payment_id, None, "PaymentError", None)
                     /\ UNCHANGED payments
                ELSE IF ~g.ok
                THEN /\ payments' = [payments EXCEPT ![payment_id] =
                            WithError(p, "not_registered", None)]
                     /\ ret' = Ret("cancel_payment", payment_id, None, "PaymentError", None)
                ELSE \E o \in Outcomes :
                       CASE o = "ok" ->
                              /\ payments' = [payments EXCEPT ![payment_id] = Canceled(p)]
                              /\ ret' = Ret("cancel_payment", payment_id, None, "ok", g.adapter)
                         [] o = "error" ->
                              \E code \in ErrorCodes(g.adapter) :
                              /\ payments' = [payments EXCEPT ![payment_id] =
                                     WithError(p, "provider_error", code)]
                              /\ ret' = Ret("cancel_payment", payment_id, None,
                                            "PaymentProviderError", g.adapter)
                         [] o = "crash" ->
                              /\ ret' = Ret("cancel_payment", payment_id, None, "Exception",
                                            g.adapter)
                              /\ UNCHANGED payments
    /\ UNCHANGED <<bankVars, authVars, hookVars, response>>
    /\ UNCHANGED <<providers, default_provider, regLog, createLog, refunds, methods, txn>>

\* Column external_id of refunds is unique
RefundExternalIds == {refunds[i].external_id : i \in DOMAIN refunds}

Refundable_any(p, user_id) == p.user_id = user_id

\* create_refund lines 224-229: the owner and status guards
Refundable(p, user_id) == p.user_id = user_id /\ p.status = "completed"

\* create_refund line 235
RefundAmount(amount, p) == IF amount # NoAmount THEN amount ELSE p.amount

\* create_refund lines 246-256
NewRefund(payment_id, p, refund_amount) ==
    [payment_id |-> payment_id, external_id |-> p.external_id,
     amount |-> refund_amount, currency |-> p.currency, status |-> "processing"]

\* create_refund line 259
Refunded(p) == [p EXCEPT !.status = "refunded"]

create_refund(payment_id, amount, user_id) ==
    /\ IF payment_id \notin DOMAIN payments
       THEN /\ ret' = RetR(payment_id, user_id, amount, "PaymentError", None)
            /\ UNCHANGED <<payments, refunds>>
       ELSE LET p == payments[payment_id]
                g == get_provider(p.provider)
                refund_amount == RefundAmount(amount, p)
            IN  IF ~Refundable(p, user_id)
                THEN /\ ret' = RetR(payment_id, user_id, amount, "PaymentError", None)
                     /\ UNCHANGED <<payments, refunds>>
                ELSE IF ~g.ok
                THEN /\ payments' = [payments EXCEPT ![payment_id] =
                            WithError(p, "not_registered", None)]
                     /\ ret' = RetR(payment_id, user_id, amount, "PaymentError", None)
                     /\ UNCHANGED refunds
                ELSE \E o \in Outcomes :
                       CASE o = "ok" ->
                              IF p.external_id \in RefundExternalIds
                              THEN \* db.commit() raises IntegrityError: the Refund row
                                   \* and the status change are rolled back together
                                   /\ ret' = RetR(payment_id, user_id, amount,
                                                 "IntegrityError", g.adapter)
                                   /\ UNCHANGED <<payments, refunds>>
                              ELSE /\ refunds' = Append(refunds,
                                          NewRefund(payment_id, p, refund_amount))
                                   /\ payments' = [payments EXCEPT ![payment_id] =
                                                       Refunded(p)]
                                   /\ ret' = RetR(payment_id, user_id, amount, "ok",
                                                 g.adapter)
                         [] o = "error" ->
                              \E code \in ErrorCodes(g.adapter) :
                              /\ payments' = [payments EXCEPT ![payment_id] =
                                     WithError(p, "provider_error", code)]
                              /\ ret' = RetR(payment_id, user_id, amount,
                                            "PaymentProviderError", g.adapter)
                              /\ UNCHANGED refunds
                         [] o = "crash" ->
                              /\ ret' = RetR(payment_id, user_id, amount, "Exception",
                                            g.adapter)
                              /\ UNCHANGED <<payments, refunds>>
    /\ UNCHANGED <<bankVars, authVars, hookVars, response>>
    /\ UNCHANGED <<providers, default_provider, regLog, createLog, methods, txn>>

-----------------------------------------------------------------------------
(* payment_transaction_service: payment methods.  A request reads the rows it works
   on into its own session and writes them back at db.commit(); the UPDATE of a row
   names only the columns whose value differs from the value the session loaded. *)

\* Request workers (one database session each)
Workers == 1 .. MaxWorkers

\* The request a worker has in hand: the operation, its arguments, and what its
\* session loaded (pc = "read": queried, not yet committed)
IdleTxn ==
    [pc |-> "idle", op |-> "none", method_id |-> 0, user_id |-> None, provider |-> None,
     type |-> None, is_default |-> FALSE, loaded_default |-> FALSE,
     existing_defaults |-> {}]

\* Rails of the payment methods created in the model
MethodProviders == {"stripe"}

existing_defaults_none(ms, user_id, provider, type) == {}

\* the existing_defaults query of create_payment_method and set_default_payment_method
existing_defaults(ms, user_id, provider, type) ==
    {k \in DOMAIN ms : /\ ms[k].user_id = user_id
                       /\ ms[k].is_default
                       /\ ms[k].provider = provider
                       /\ ms[k].type = type}

\* PaymentMethodModel(...) of create_payment_method; is_active defaults to True
NewMethod(user_id, provider, type, is_default) ==
    [user_id |-> user_id, provider |-> provider, type |-> type,
     is_default |-> is_default, is_active |-> TRUE]

\* What create_payment_method has in hand before db.add / db.commit
CreateMethodTxn(ms, user_id, provider, type, is_default) ==
    [pc |-> "read", op |-> "create_payment_method", method_id |-> 0,
     user_id |-> user_id, provider |-> provider, type |-> type,
     is_default |-> is_default, loaded_default |-> FALSE,
     existing_defaults |-> IF is_default
                           THEN existing_defaults(ms, user_id, provider, type)
                           ELSE {}]

\* What set_default_payment_method has in hand before db.commit
SetDefaultTxn(ms, method_id, user_id) ==
    [pc |-> "read", op |-> "set_default_payment_method", method_id |-> method_id,
     user_id |-> user_id, provider |-> ms[method_id].provider,
     type |-> ms[method_id].type, is_default |-> TRUE,
     loaded_default |-> ms[method_id].is_default,
     existing_defaults |-> existing_defaults(ms, user_id, ms[method_id].provider,
                                             ms[method_id].type)]

\* db.commit() of a request t against the table ms: every row of existing_defaults is
\* written is_default False; the promoted row is written True unless the session
\* loaded it as True (no net change, no column in the UPDATE); a created row is added
Committed(ms, t) ==
    LET cleared == [k \in DOMAIN ms |->
                      IF k = t.method_id
                      THEN IF t.loaded_default THEN ms[k]
                                               ELSE [ms[k] EXCEPT !.is_default = TRUE]
                      ELSE IF k \in t.existing_defaults
                      THEN [ms[k] EXCEPT !.is_default = FALSE]
                      ELSE ms[k]]
    IN  IF t.op = "create_payment_method"
        THEN Append(cleared, NewMethod(t.user_id, t.provider, t.type, t.is_default))
        ELSE cleared

Done(t) == [t EXCEPT !.pc = "idle"]

\* create_payment_method run alone: query, insert and commit with nothing in between
create_payment_method(user_id, provider, type, is_default) ==
    /\ Len(methods) < MaxMethods
    /\ LET t == CreateMethodTxn(methods, user_id, provider, type, is_default)
       IN  /\ methods' = Committed(methods, t)
           /\ txn' = [txn EXCEPT ![1] = Done(t)]
           /\ ret' = Ret("create_payment_method", Len(methods) + 1, user_id, "ok", None)
    /\ UNCHANGED <<bankVars, authVars, hookVars, response>>
    /\ UNCHANGED <<providers, default_provider, regLog, payments, createLog, refunds>>

\* set_default_payment_method run alone
set_default_payment_method(method_id, user_id) ==
    /\ IF method_id \notin DOMAIN methods
       THEN /\ ret' = Ret("set_default_payment_method", method_id, user_id, "None", None)
            /\ UNCHANGED <<methods, txn>>
       ELSE IF methods[method_id].user_id # user_id
       THEN /\ ret' = Ret("set_default_payment_method", method_id, user_id,
                          "PaymentError", None)
            /\ UNCHANGED <<methods, txn>>
       ELSE LET t == SetDefaultTxn(methods, method_id, user_id)
            IN  /\ methods' = Committed(methods, t)
                /\ txn' = [txn EXCEPT ![1] = Done(t)]
                /\ ret' = Ret("set_default_payment_method", method_id, user_id, "ok",
                              None)
    /\ UNCHANGED <<bankVars, authVars, hookVars, response>>
    /\ UNCHANGED <<providers, default_provider, regLog, payments, createLog, refunds>>

\* delete_payment_method: the soft delete writes is_active only
delete_payment_method(method_id, user_id) ==
    /\ IF method_id \notin DOMAIN methods
       THEN /\ ret' = Ret("delete_payment_method", method_id, user_id, "False", None)
            /\ UNCHANGED methods
       ELSE IF methods[method_id].user_id # user_id
       THEN /\ ret' = Ret("delete_payment_method", method_id, user_id, "PaymentError",
                          None)
            /\ UNCHANGED methods
       ELSE /\ methods' = [methods EXCEPT ![method_id].is_active = FALSE]
            /\ ret' = Ret("delete_payment_method", method_id, user_id, "ok", None)
    /\ UNCHANGED <<bankVars, authVars, hookVars, response>>
    /\ UNCHANGED <<providers, default_provider, regLog, payments, createLog, refunds,
                   txn>>

(* The same requests served by concurrent workers: the queries of a request are one
   step and its db.commit() a later one.  The sessions take no row lock and set no
   isolation level (db/database.py), so other requests commit in between. *)

\* Workers whose created row is not committed yet
PendingCreates ==
    {v \in Workers : txn[v].pc = "read" /\ txn[v].op = "create_payment_method"}

\* create_payment_method up to db.add: lines 306-336
create_payment_method_read(w, user_id, provider, type, is_default) ==
    /\ txn[w].pc = "idle"
    /\ Len(methods) + Cardinality(PendingCreates) < MaxMethods
    /\ txn' = [txn EXCEPT ![w] =
                 CreateMethodTxn(methods, user_id, provider, type, is_default)]
    /\ UNCHANGED <<bankVars, authVars, hookVars, response>>
    /\ UNCHANGED <<providers, default_provider, regLog, payments, createLog, refunds,
                   methods, ret>>

\* set_default_payment_method up to db.commit: lines 392-417
set_default_payment_method_read(w, method_id, user_id) ==
    /\ txn[w].pc = "idle"
    /\ IF method_id \notin DOMAIN methods
       THEN /\ ret' = Ret("set_default_payment_method", method_id, user_id, "None", None)
            /\ UNCHANGED txn
       ELSE IF methods[method_id].user_id # user_id
       THEN /\ ret' = Ret("set_default_payment_method", method_id, user_id,
                          "PaymentError", None)
            /\ UNCHANGED txn
       ELSE /\ txn' = [txn EXCEPT ![w] = SetDefaultTxn(methods, method_id, user_id)]
            /\ UNCHANGED ret
    /\ UNCHANGED <<bankVars, authVars, hookVars, response>>
    /\ UNCHANGED <<providers, default_provider, regLog, payments, createLog, refunds,
                   methods>>

\* db.commit() of the request worker w has in hand: lines 337, 420
commit(w) ==
    /\ txn[w].pc = "read"
    /\ methods' = Committed(methods, txn[w])
    /\ txn' = [txn EXCEPT ![w] = Done(txn[w])]
    /\ ret' = Ret(txn[w].op,
                  IF txn[w].op = "create_payment_method" THEN Len(methods) + 1
                                                         ELSE txn[w].method_id,
                  txn[w].user_id, "ok", None)
    /\ UNCHANGED <<bankVars, authVars, hookVars, response>>
    /\ UNCHANGED <<providers, default_provider, regLog, payments, createLog, refunds>>

-----------------------------------------------------------------------------
(* BankingService: linked items, their accounts and transactions.  Rows are kept by
   primary key; a deleted row leaves the table.  The rail (Plaid) is the variable
   remote: which accounts the rail holds at the moment; it holds the transactions of
   the accounts it holds. *)

\* Identifiers the rail issues
RailItems == 1 .. MaxItems

RailAccounts == 1 .. MaxAccounts

RailTransactions == 1 .. MaxTxns

\* Public tokens of the Link flow; two tokens resolve to each rail item
PublicTokens == 1 .. 2 * MaxItems

\* item_id of the item_public_token_exchange response for a public token
ExchangedItem(public_token) == (public_token + 1) \div 2

\* How a call to the rail ends: a response, or an exception (plaid.ApiException, or
\* ValueError when the client is not initialized)
RailOutcomes == {"ok", "fail"}

\* The outcome of a request that has not set a field
BaseResp(op) ==
    [op |-> op, item |-> 0, status |-> 200,
     success |-> FALSE, message |-> None, created |-> 0, updated |-> 0,
     json |-> TRUE, webhook_type |-> None, webhook_code |-> None,
     requires_action |-> FALSE, action |-> None, failed |-> 0]

\* uuid.uuid4() of a new row: a key no row of the table holds
FreshId(table) ==
    CHOOSE n \in 1 .. Cardinality(DOMAIN table) + 1 :
        /\ n \notin DOMAIN table
        /\ \A m \in 1 .. n - 1 : m \in DOMAIN table

get_plaid_item_by_item_id_none(plaid_item_id) == {}

\* get_plaid_item_by_item_id: the keys of the rows with that rail item id
get_plaid_item_by_item_id(plaid_item_id) ==
    {i \in DOMAIN items : items[i].item_id = plaid_item_id}

get_plaid_account_by_account_id_none(accts, plaid_account_id) == {}

\* get_plaid_account_by_account_id over a table accts
get_plaid_account_by_account_id(accts, plaid_account_id) ==
    {a \in DOMAIN accts : accts[a].account_id = plaid_account_id}

\* get_item_accounts
get_item_accounts(item_id) == {a \in DOMAIN accounts : accounts[a].item = item_id}

\* The item a rail account belongs to, and the account a rail transaction is booked
\* on: the rail never moves either (two accounts to an item)
RailItemOf(a) == (((a - 1) \div 2) % MaxItems) + 1

RailAccountOf(t) == ((t - 1) % MaxAccounts) + 1

\* plaid_service.get_accounts(access_token) for the item with rail id r
get_accounts(r) == {a \in RailAccounts : remote.accounts[a] /\ RailItemOf(a) = r}

\* PlaidItem(**item_data.dict()) of create_plaid_item
NewItem(user_id, plaid_item_id) ==
    [user_id |-> user_id, item_id |-> plaid_item_id, is_active |-> TRUE, error |-> None]

\* The loop of sync_accounts over the fetched accounts todo: an account whose
\* account_id is already stored is updated, any other is created under the item
RECURSIVE UpsertAccounts(_, _, _)
UpsertAccounts(accts, item_id, todo) ==
    IF todo = {}
    THEN [table |-> accts, created |-> 0, updated |-> 0]
    ELSE LET a == CHOOSE x \in todo : \A y \in todo : x <= y
             existing == get_plaid_account_by_account_id(accts, a)
             next == IF existing # {}
                     THEN accts
                     ELSE (FreshId(accts) :> [item |-> item_id, account_id |-> a])
                              @@ accts
             rest == UpsertAccounts(next, item_id, todo \ {a})
         IN  [table |-> rest.table,
              created |-> rest.created + (IF existing = {} THEN 1 ELSE 0),
              updated |-> rest.updated + (IF existing # {} THEN 1 ELSE 0)]

\* The fetched accounts the loop of sync_accounts gets through when the processing of
\* account bad raises (0: none does): the loop has no handler of its own, so the
\* accounts after bad are never reached; those before it are already committed
Processed(fetched, bad) ==
    IF bad = 0 THEN fetched ELSE {a \in fetched : a < bad}

\* link_account: exchange the token; refuse an item already linked; else store the
\* item and run sync_accounts on it, whose own failure is not reported
link_account(user_id, public_token) ==
    /\ \E ex \in RailOutcomes :
         LET r == ExchangedItem(public_token)
             existing_item == get_plaid_item_by_item_id(r)
             base == BaseResp("link_account")
             id == FreshId(items)
         IN  IF ex = "fail"
             THEN /\ response' = [base EXCEPT !.message = "error"]
                  /\ UNCHANGED <<items, accounts>>
             ELSE IF existing_item # {}
             THEN /\ response' = [base EXCEPT !.message = "already_linked",
                                          !.item = CHOOSE i \in existing_item : TRUE]
                  /\ UNCHANGED <<items, accounts>>
             ELSE /\ items' = (id :> NewItem(user_id, r)) @@ items
                  /\ \E get \in RailOutcomes, bad \in get_accounts(r) \cup {0} :
                        accounts' =
                            IF get = "ok"
                            THEN UpsertAccounts(accounts, id,
                                                Processed(get_accounts(r), bad)).table
                            ELSE accounts
                  /\ response' = [base EXCEPT !.success = TRUE, !.message = "linked",
                                          !.item = id]
    /\ UNCHANGED <<transactions, remote>>
    /\ UNCHANGED <<payVars, authVars, hookVars>>

\* sync_accounts
sync_accounts(item_id) ==
    /\ LET base == [BaseResp("sync_accounts") EXCEPT !.item = item_id]
       IN  IF item_id \notin DOMAIN items
           THEN /\ response' = [base EXCEPT !.message = "not_found"]
                /\ UNCHANGED accounts
           ELSE \E get \in RailOutcomes,
                   bad \in get_accounts(items[item_id].item_id) \cup {0} :
                  LET fetched == get_accounts(items[item_id].item_id)
                      synced == UpsertAccounts(accounts, item_id,
                                               Processed(fetched, bad))
                  IN  IF get = "fail"
                      THEN /\ response' = [base EXCEPT !.message = "error"]
                           /\ UNCHANGED accounts
                      ELSE IF bad # 0
                      THEN \* create_plaid_account / update_plaid_account raises
                           /\ accounts' = synced.table
                           /\ response' = [base EXCEPT !.message = "error",
                                                   !.failed = bad]
                      ELSE /\ accounts' = synced.table
                           /\ response' = [base EXCEPT !.success = TRUE,
                                                   !.message = "synced",
                                                   !.created = synced.created,
                                                   !.updated = synced.updated]
    /\ UNCHANGED <<items, transactions, remote>>
    /\ UNCHANGED <<payVars, authVars, hookVars>>

\* The rail gains or loses an account
rail_account_change(a) ==
    /\ remote' = [remote EXCEPT !.accounts[a] = ~remote.accounts[a]]
    /\ response' = BaseResp("rail_account_change")
    /\ UNCHANGED <<items, accounts, transactions>>
    /\ UNCHANGED <<payVars, authVars, hookVars>>

\* The transactions the rail holds for an item whose account_id is that of one of
\* the item's stored accounts (the db_account lookup of sync_transactions)
ResolvableTransactions(item_id) ==
    {t \in RailTransactions :
        /\ remote.accounts[RailAccountOf(t)]
        /\ RailItemOf(RailAccountOf(t)) = items[item_id].item_id
        /\ \E a \in get_item_accounts(item_id) :
              accounts[a].account_id = RailAccountOf(t)}

\* The dictionary sync_transactions returns (success and message); the message of the
\* handler at lines 600-605 is "Error syncing transactions: ..."
SyncTransactionsResult(item_id) ==
    [success |-> FALSE,
     message |-> IF item_id \notin DOMAIN items THEN "not_found"
                 ELSE IF get_item_accounts(item_id) = {} THEN "no_accounts"
                 ELSE "error_syncing_transactions"]

\* sync_transactions: line 515 evaluates datetime.timedelta on the class datetime
\* (from datetime import datetime), an AttributeError the handler turns into a
\* failure before the rail is asked for anything
sync_transactions(item_id) ==
    /\ LET base == [BaseResp("sync_transactions") EXCEPT !.item = item_id]
           sync_result == SyncTransactionsResult(item_id)
       IN  response' = [base EXCEPT !.success = sync_result.success,
                                    !.message = sync_result.message]
    /\ UNCHANGED <<items, accounts, transactions, remote>>
    /\ UNCHANGED <<payVars, authVars, hookVars>>

\* db.delete(db_item); db.commit(): the relationships cascade "all, delete-orphan"
\* from the item to its accounts and from an account to its transactions
ItemsWithout(item_id) == [i \in DOMAIN items \ {item_id} |-> items[i]]

AccountsWithout_all(item_id) == accounts

AccountsWithout(item_id) ==
    [a \in DOMAIN accounts \ get_item_accounts(item_id) |-> accounts[a]]

TransactionsWithout(item_id) ==
    [t \in {x \in DOMAIN transactions :
               transactions[x].account \notin get_item_accounts(item_id)}
       |-> transactions[t]]

\* DELETE /banking/items/{item_id}: the function body is its docstring; it returns
\* None, which the response model Dict[str, Any] rejects (HTTP 500)
delete_plaid_item_endpoint(item_id, current_user) ==
    /\ response' = [BaseResp("delete_plaid_item") EXCEPT !.item = item_id,
                                                         !.status = 500,
                                                         !.message = "error"]
    /\ UNCHANGED <<items, accounts, transactions, remote>>
    /\ UNCHANGED <<payVars, authVars, hookVars>>

-----------------------------------------------------------------------------
(* Webhooks: PlaidService.handle_webhook classifies the payload,
   BankingService.process_webhook acts on it, POST /banking/webhook answers. *)

WebhookTypes == {None, "TRANSACTIONS", "ITEM", "AUTH", "HOLDINGS"}

WebhookCodes ==
    {None, "INITIAL_UPDATE", "HISTORICAL_UPDATE", "DEFAULT_UPDATE",
     "TRANSACTIONS_REMOVED", "ERROR", "PENDING_EXPIRATION", "USER_PERMISSION_REVOKED",
     "AUTOMATICALLY_VERIFIED", "VERIFICATION_EXPIRED", "WEBHOOK_UPDATE_ACKNOWLEDGED"}

\* The "error" member of a payload: absent, null, or an object with an error_code
WebhookErrors ==
    {"absent", "null", "ITEM_LOGIN_REQUIRED", "INVALID_CREDENTIALS", "INSTITUTION_DOWN"}

\* The error codes process_webhook deactivates the item for (line 659)
ReauthCodes == {"ITEM_LOGIN_REQUIRED", "INVALID_CREDENTIALS"}

\* The error members of the runs that mix every kind of event
BankErrors == {"absent", "null", "ITEM_LOGIN_REQUIRED"}

\* A request body that is not JSON (or empty), and the JSON objects: a field that is
\* missing or empty is None (item_id: 0)
NotJson ==
    [json |-> FALSE, webhook_type |-> None, webhook_code |-> None, item_id |-> 0,
     error |-> "absent"]

WebhookData(webhook_type, webhook_code, item_id, error) ==
    [json |-> TRUE, webhook_type |-> webhook_type, webhook_code |-> webhook_code,
     item_id |-> item_id, error |-> error]

\* _handle_transactions_webhook: the action of a code
_handle_transactions_webhook(webhook_code) ==
    IF webhook_code \in {"INITIAL_UPDATE", "HISTORICAL_UPDATE", "DEFAULT_UPDATE",
                         "TRANSACTIONS_REMOVED"}
    THEN "sync_transactions"
    ELSE None

\* _handle_item_webhook
_handle_item_webhook(webhook_code) ==
    CASE webhook_code = "ERROR" -> "update_item_error"
      [] webhook_code = "PENDING_EXPIRATION" -> "notify_user"
      [] webhook_code = "USER_PERMISSION_REVOKED" -> "remove_item"
      [] OTHER -> None

_handle_auth_webhook_none(webhook_code) == None

\* _handle_auth_webhook
_handle_auth_webhook(webhook_code) ==
    CASE webhook_code = "AUTOMATICALLY_VERIFIED" -> "update_account_status"
      [] webhook_code = "VERIFICATION_EXPIRED" -> "notify_user"
      [] OTHER -> None

\* handle_webhook: ValueError on a payload without type, code or item id; else the
\* result dictionary (requires_action is set exactly where action is)
handle_webhook(webhook_data) ==
    LET action == CASE webhook_data.webhook_type = "TRANSACTIONS" ->
                           _handle_transactions_webhook(webhook_data.webhook_code)
                    [] webhook_data.webhook_type = "ITEM" ->
                           _handle_item_webhook(webhook_data.webhook_code)
                    [] webhook_data.webhook_type = "AUTH" ->
                           _handle_auth_webhook(webhook_data.webhook_code)
                    [] OTHER -> None
    IN  IF \/ webhook_data.webhook_type = None
           \/ webhook_data.webhook_code = None
           \/ webhook_data.item_id = 0
        THEN [raises |-> TRUE, requires_action |-> FALSE, action |-> None]
        ELSE [raises |-> FALSE, requires_action |-> action # None, action |-> action]

WithItemError_toggle(item, error) ==
    [item EXCEPT !.error = IF error = "absent" THEN "{}" ELSE error,
                 !.is_active = ~item.is_active]

\* The setattr loop of update_plaid_item for PlaidItemUpdate(error, is_active) built
\* by the update_item_error branch
WithItemError(item, error) ==
    [item EXCEPT !.error = IF error = "absent" THEN "{}" ELSE error,
                 !.is_active = error \notin ReauthCodes]

\* process_webhook: what it returns and the tables it leaves.  Exceptions end in
\* success False: ValueError of handle_webhook, the missing method
\* sync_item_transactions, .get on a null error, and PlaidAccountUpdate(is_active=True)
\* without its required name and type
process_webhook(webhook_data) ==
    LET webhook_result == handle_webhook(webhook_data)
        db_item == get_plaid_item_by_item_id(webhook_data.item_id)
        id == CHOOSE i \in db_item : TRUE
        same == [items |-> items, accounts |-> accounts, transactions |-> transactions]
        failed(message) == [success |-> FALSE, message |-> message, tables |-> same]
        done(message, tables) ==
            [success |-> TRUE, message |-> message, tables |-> tables]
    IN  IF webhook_result.raises THEN failed("error")
        ELSE IF ~webhook_result.requires_action THEN done("no_action", same)
        ELSE IF db_item = {} THEN failed("not_found")
        ELSE CASE webhook_result.action = "sync_transactions" -> failed("error")
               [] webhook_result.action = "update_item_error" ->
                      IF webhook_data.error = "null"
                      THEN failed("error")
                      ELSE done("item_error_updated",
                                [same EXCEPT !.items =
                                    [items EXCEPT ![id] =
                                        WithItemError(items[id], webhook_data.error)]])
               [] webhook_result.action = "remove_item" ->
                      done("item_removed",
                           [items |-> ItemsWithout(id),
                            accounts |-> AccountsWithout(id),
                            transactions |-> TransactionsWithout(id)])
               [] webhook_result.action = "update_account_status" ->
                      IF get_item_accounts(id) # {}
                      THEN failed("error")
                      ELSE done("account_status_updated", same)
               [] webhook_result.action = "notify_user" -> done("notified", same)
               [] OTHER -> failed("unknown_action")

\* POST /banking/webhook: request.json() of a body that is not JSON raises
\* json.JSONDecodeError, a ValueError, which the endpoint answers with HTTP 400
handle_plaid_webhook(webhook_data) ==
    /\ LET base == [BaseResp("handle_plaid_webhook") EXCEPT
                       !.webhook_type = webhook_data.webhook_type,
                       !.webhook_code = webhook_data.webhook_code,
                       !.item = webhook_data.item_id,
                       !.json = webhook_data.json]
           result == process_webhook(webhook_data)
           webhook_result == handle_webhook(webhook_data)
       IN  IF ~webhook_data.json
           THEN /\ response' = [base EXCEPT !.status = 400, !.message = "error"]
                /\ UNCHANGED <<items, accounts, transactions>>
           ELSE /\ response' = [base EXCEPT
                                   !.success = result.success,
                                   !.message = result.message,
                                   !.requires_action = webhook_result.requires_action,
                                   !.action = webhook_result.action]
                /\ items' = result.tables.items
                /\ accounts' = result.tables.accounts
                /\ transactions' = result.tables.transactions
    /\ UNCHANGED remote
    /\ UNCHANGED <<payVars, authVars, hookVars>>

\* The payloads of the banking runs: every classified event, an unclassified one,
\* one without item id, and a body that is not JSON
BankPayloads ==
    {NotJson}
    \cup {WebhookData(t, c, i, "absent") :
            t \in {"TRANSACTIONS"}, c \in {"DEFAULT_UPDATE"}, i \in RailItems \cup {0}}
    \cup {WebhookData("ITEM", c, i, "absent") :
            c \in {"PENDING_EXPIRATION", "USER_PERMISSION_REVOKED"}, i \in RailItems}
    \cup {WebhookData("ITEM", "ERROR", i, "ITEM_LOGIN_REQUIRED") : i \in RailItems}
    \cup {WebhookData("AUTH", c, i, "absent") :
            c \in {"AUTOMATICALLY_VERIFIED", "WEBHOOK_UPDATE_ACKNOWLEDGED"},
            i \in RailItems}

\* Every payload over the vocabularies; the error member varies where it is read
AllPayloads ==
    {NotJson}
    \cup {WebhookData(t, c, i, "absent") :
            t \in WebhookTypes, c \in WebhookCodes, i \in RailItems \cup {0}}
    \cup {WebhookData("ITEM", "ERROR", i, e) : i \in RailItems, e \in BankErrors}

\* The ITEM / ERROR events, over every error member
ItemErrorPayloads ==
    {WebhookData("ITEM", "ERROR", i, e) : i \in RailItems, e \in WebhookErrors}

-----------------------------------------------------------------------------
(* Webhook deliveries served by concurrent workers.  A delivery that writes is three
   steps: process_webhook up to its item lookup (line 631); the get_plaid_item of
   update_plaid_item / delete_plaid_item (lines 103, 125); and db.commit() (lines 111,
   130).  Each request has its own session; other requests commit in between.  The
   rail delivers every event MaxWorkers times (a round), one delivery after another or
   several at once. *)

\* A row that is not loaded
NoItem == [user_id |-> None, item_id |-> 0, is_active |-> FALSE, error |-> None]

\* pc "found": db_item looked up; "loaded": get_plaid_item returned the row; id and
\* loaded: the row the session holds, as it was when the session first read it
IdleDelivery == [pc |-> "idle", webhook_data |-> NotJson, id |-> 0, loaded |-> NoItem]

\* history: the event of the round, the deliveries started, whether one started
\* while another was in progress, and the tables one delivery alone leaves
NoRound ==
    [webhook_data |-> NotJson, started |-> 0, overlapped |-> FALSE,
     once |-> [items |-> <<>>, accounts |-> <<>>, transactions |-> <<>>]]

InFlight == {w \in Workers : deliveries.worker[w].pc # "idle"}

RoundDone == InFlight = {} /\ deliveries.round.started = MaxWorkers

\* The answer of POST /banking/webhook for a processing result
DeliveryResponse(webhook_data, success, message) ==
    LET webhook_result == handle_webhook(webhook_data)
    IN  IF ~webhook_data.json
        THEN [BaseResp("handle_plaid_webhook") EXCEPT
                 !.json = FALSE, !.status = 400, !.message = "error"]
        ELSE [BaseResp("handle_plaid_webhook") EXCEPT
                 !.webhook_type = webhook_data.webhook_type,
                 !.webhook_code = webhook_data.webhook_code,
                 !.item = webhook_data.item_id,
                 !.success = success,
                 !.message = message,
                 !.requires_action = webhook_result.requires_action,
                 !.action = webhook_result.action]

\* The branches of process_webhook that reach update_plaid_item or delete_plaid_item
Writes(webhook_data) ==
    LET webhook_result == handle_webhook(webhook_data)
    IN  /\ webhook_data.json
        /\ ~webhook_result.raises
        /\ get_plaid_item_by_item_id(webhook_data.item_id) # {}
        /\ \/ webhook_result.action = "update_item_error" /\ webhook_data.error # "null"
           \/ webhook_result.action = "remove_item"

\* The round after one more delivery of webhook_data has started
Started(webhook_data) ==
    IF deliveries.round.started \in {0, MaxWorkers}
    THEN [webhook_data |-> webhook_data, started |-> 1, overlapped |-> FALSE,
          once |-> process_webhook(webhook_data).tables]
    ELSE [deliveries.round EXCEPT !.started = @ + 1,
                                  !.overlapped = @ \/ InFlight # {}]

\* A delivery up to the item lookup of process_webhook; a delivery that takes a branch
\* which writes nothing ends here
handle_plaid_webhook_read(w, webhook_data) ==
    /\ deliveries.worker[w].pc = "idle"
    /\ IF deliveries.round.started \in {0, MaxWorkers}
       THEN InFlight = {}
       ELSE webhook_data = deliveries.round.webhook_data
    /\ LET result == process_webhook(webhook_data)
           id == CHOOSE i \in get_plaid_item_by_item_id(webhook_data.item_id) : TRUE
       IN  IF Writes(webhook_data)
           THEN /\ deliveries' =
                      [worker |-> [deliveries.worker EXCEPT ![w] =
                                      [pc |-> "found", webhook_data |-> webhook_data,
                                       id |-> id, loaded |-> items[id]]],
                       round |-> Started(webhook_data)]
                /\ UNCHANGED response
           ELSE /\ deliveries' = [deliveries EXCEPT !.round = Started(webhook_data)]
                /\ response' = DeliveryResponse(webhook_data, result.success,
                                                result.message)
    /\ UNCHANGED <<items, accounts, transactions, remote>>
    /\ UNCHANGED <<payVars, authVars>>

\* The message of a branch that went through
DoneMessage(webhook_data) ==
    IF webhook_data.webhook_code = "ERROR" THEN "item_error_updated" ELSE "item_removed"

\* get_plaid_item of update_plaid_item / delete_plaid_item: a row that is gone makes
\* them return None / False, which process_webhook does not look at
handle_plaid_webhook_load(w) ==
    /\ deliveries.worker[w].pc = "found"
    /\ LET d == deliveries.worker[w]
       IN  IF d.id \in DOMAIN items
           THEN /\ deliveries' = [deliveries EXCEPT !.worker[w].pc = "loaded"]
                /\ UNCHANGED response
           ELSE /\ deliveries' = [deliveries EXCEPT !.worker[w] = IdleDelivery]
                /\ response' = DeliveryResponse(d.webhook_data, TRUE,
                                                DoneMessage(d.webhook_data))
    /\ UNCHANGED <<items, accounts, transactions, remote>>
    /\ UNCHANGED <<payVars, authVars>>

\* The UPDATE of update_plaid_item: the columns whose new value differs from the value
\* the session loaded
UpdatedItem(row, loaded, error) ==
    LET new == WithItemError(loaded, error)
    IN  [row EXCEPT !.error = IF new.error # loaded.error THEN new.error ELSE @,
                    !.is_active = IF new.is_active # loaded.is_active
                                  THEN new.is_active ELSE @]

\* db.commit() of a delivery: the UPDATE or the cascading DELETE.  A row another
\* request has deleted meanwhile: the UPDATE raises StaleDataError; the DELETE warns
\* or raises, by the version of the ORM
handle_plaid_webhook_commit(w) ==
    /\ deliveries.worker[w].pc = "loaded"
    /\ LET d == deliveries.worker[w]
           update == d.webhook_data.webhook_code = "ERROR"
       IN  IF d.id \notin DOMAIN items
           THEN /\ \E raised \in (IF update THEN {TRUE} ELSE BOOLEAN) :
                      response' = IF raised
                                  THEN DeliveryResponse(d.webhook_data, FALSE, "error")
                                  ELSE DeliveryResponse(d.webhook_data, TRUE,
                                                        DoneMessage(d.webhook_data))
                /\ UNCHANGED <<items, accounts, transactions>>
           ELSE /\ response' = DeliveryResponse(d.webhook_data, TRUE,
                                                DoneMessage(d.webhook_data))
                /\ IF update
                   THEN /\ items' = [items EXCEPT ![d.id] =
                                        UpdatedItem(@, d.loaded, d.webhook_data.error)]
                        /\ UNCHANGED <<accounts, transactions>>
                   ELSE /\ items' = ItemsWithout(d.id)
                        /\ accounts' = AccountsWithout(d.id)
                        /\ transactions' = TransactionsWithout(d.id)
    /\ deliveries' = [deliveries EXCEPT !.worker[w] = IdleDelivery]
    /\ UNCHANGED remote
    /\ UNCHANGED <<payVars, authVars>>

-----------------------------------------------------------------------------
(* Registration (api/auth.py register_user, system_service) *)

\* Identities a registration can claim (email and username, both unique)
Emails == 1 .. MaxUsers

is_first_user_always == TRUE

\* is_first_user: False once a first admin is recorded, else whether no user exists
is_first_user == IF FIRST_ADMIN_CREATED THEN FALSE ELSE DOMAIN users = {}

\* get_user_by_email / get_user_by_username
get_user_by_email(email) == {u \in DOMAIN users : users[u].email = email}

\* POST /api/auth/register: the admin flag is dropped unless this is the first user;
\* create_user refuses a taken identity (ValueError, HTTP 400); the first admin is
\* recorded after the row is stored
register_user(email, is_admin) ==
    /\ LET first_user == is_first_user
           admin == IF first_user THEN is_admin ELSE FALSE
       IN  IF get_user_by_email(email) # {}
           THEN /\ response' = [BaseResp("register_user") EXCEPT !.status = 400,
                                                                 !.message = "error"]
                /\ UNCHANGED <<users, FIRST_ADMIN_CREATED>>
           ELSE /\ users' = (FreshId(users) :> [email |-> email, is_admin |-> admin])
                                @@ users
                /\ FIRST_ADMIN_CREATED' = (FIRST_ADMIN_CREATED \/ (first_user /\ admin))
                /\ response' = [BaseResp("register_user") EXCEPT
                                   !.status = 201, !.success = TRUE,
                                   !.item = FreshId(users)]
    /\ UNCHANGED <<mock_user, mfaLog>>
    /\ UNCHANGED <<payVars, bankVars, hookVars>>

\* user_service.delete_user
delete_user(user_id) ==
    /\ IF user_id \notin DOMAIN users
       THEN /\ response' = BaseResp("delete_user")
            /\ UNCHANGED users
       ELSE /\ users' = [u \in DOMAIN users \ {user_id} |-> users[u]]
            /\ response' = [BaseResp("delete_user") EXCEPT !.success = TRUE,
                                                           !.item = user_id]
    /\ UNCHANGED <<FIRST_ADMIN_CREATED, mock_user, mfaLog>>
    /\ UNCHANGED <<payVars, bankVars, hookVars>>

\* The server process starts anew: settings.FIRST_ADMIN_CREATED is a field of the
\* Settings object with default False, kept in memory only
restart ==
    /\ FIRST_ADMIN_CREATED' = FALSE
    /\ response' = BaseResp("restart")
    /\ UNCHANGED <<users, mock_user, mfaLog>>
    /\ UNCHANGED <<payVars, bankVars, hookVars>>

-----------------------------------------------------------------------------
(* Multi-factor authentication (tests/unit/test_mfa_standalone.py): one user, the
   TOTP code presented being valid for the user's secret or not, recovery codes being
   the numbers generate_recovery_codes has issued so far. *)

\* A TOTP code argument: none, one that verifies against the secret, one that does not
TotpCodes == {None, "valid", "invalid"}

\* A recovery_code argument: none (0), or a code value
RecoveryArgs == 0 .. MaxGenerations * RecoveryCount

\* MockUser.__init__
NewMockUser == [mfa_enabled |-> FALSE, mfa_secret |-> FALSE, recovery_codes |-> <<>>]

\* generate_recovery_codes: count codes not issued before, none of them used
generate_recovery_codes(issued) ==
    [k \in 1 .. RecoveryCount |-> [code |-> issued + k, used |-> FALSE]]

\* verify_mfa_code(user.mfa_secret, code)
verify_mfa_code(code) == code = "valid"

FirstUnused_any(recovery_codes, recovery_code) ==
    {k \in DOMAIN recovery_codes : recovery_codes[k].code = recovery_code}

\* The loop over user.recovery_codes: the entries that are not used and whose hash is
\* the hash of the presented code; the loop stops at the first
FirstUnused(recovery_codes, recovery_code) ==
    {k \in DOMAIN recovery_codes :
        /\ ~recovery_codes[k].used
        /\ recovery_codes[k].code = recovery_code}

\* What the verification shared by verify_login_mfa and disable_mfa decides and the
\* recovery codes it leaves
Verified(user, code, recovery_code) ==
    LET by_code == code # None /\ verify_mfa_code(code)
        hits == IF recovery_code # 0
                THEN FirstUnused(user.recovery_codes, recovery_code)
                ELSE {}
        k == CHOOSE x \in hits : \A y \in hits : x <= y
    IN  IF by_code THEN [is_verified |-> TRUE, recovery_codes |-> user.recovery_codes]
        ELSE IF hits # {}
        THEN [is_verified |-> TRUE,
              recovery_codes |-> [user.recovery_codes EXCEPT ![k].used = TRUE]]
        ELSE [is_verified |-> FALSE, recovery_codes |-> user.recovery_codes]

\* setup_mfa: a new secret
setup_mfa ==
    /\ mock_user' = [mock_user EXCEPT !.mfa_secret = TRUE]
    /\ response' = [BaseResp("setup_mfa") EXCEPT !.success = TRUE]
    /\ UNCHANGED <<users, FIRST_ADMIN_CREATED, mfaLog>>
    /\ UNCHANGED <<payVars, bankVars, hookVars>>

\* enable_mfa: raises when MFA is enabled already or the code does not verify (no
\* secret: pyotp raises); else issues the recovery codes
enable_mfa(code) ==
    /\ mfaLog.issued < MaxGenerations * RecoveryCount
    /\ IF mock_user.mfa_enabled \/ ~mock_user.mfa_secret \/ ~verify_mfa_code(code)
       THEN /\ response' = [BaseResp("enable_mfa") EXCEPT !.message = "Exception"]
            /\ UNCHANGED <<mock_user, mfaLog>>
       ELSE /\ mock_user' = [mock_user EXCEPT
                                !.recovery_codes = generate_recovery_codes(mfaLog.issued),
                                !.mfa_enabled = TRUE]
            /\ mfaLog' = [mfaLog EXCEPT !.issued = @ + RecoveryCount]
            /\ response' = [BaseResp("enable_mfa") EXCEPT !.success = TRUE]
    /\ UNCHANGED <<users, FIRST_ADMIN_CREATED>>
    /\ UNCHANGED <<payVars, bankVars, hookVars>>

\* disable_mfa
disable_mfa(code, recovery_code) ==
    /\ LET v == Verified(mock_user, code, recovery_code)
       IN  IF ~mock_user.mfa_enabled
           THEN /\ response' = [BaseResp("disable_mfa") EXCEPT !.message = "Exception"]
                /\ UNCHANGED mock_user
           ELSE IF ~v.is_verified
           THEN /\ response' = [BaseResp("disable_mfa") EXCEPT !.message = "Exception"]
                /\ UNCHANGED mock_user
           ELSE /\ mock_user' = NewMockUser
                /\ response' = [BaseResp("disable_mfa") EXCEPT !.success = TRUE]
    /\ UNCHANGED <<users, FIRST_ADMIN_CREATED, mfaLog>>
    /\ UNCHANGED <<payVars, bankVars, hookVars>>

\* verify_login_mfa: True when MFA is not enabled; else the verification, which marks
\* the recovery code it accepted
verify_login_mfa(code, recovery_code) ==
    /\ LET v == Verified(mock_user, code, recovery_code)
           by_recovery == v.recovery_codes # mock_user.recovery_codes
       IN  IF ~mock_user.mfa_enabled
           THEN /\ response' = [BaseResp("verify_login_mfa") EXCEPT !.success = TRUE,
                                    !.message = "not_required"]
                /\ UNCHANGED <<mock_user, mfaLog>>
           ELSE /\ mock_user' = [mock_user EXCEPT !.recovery_codes = v.recovery_codes]
                /\ mfaLog' = IF by_recovery
                             THEN [mfaLog EXCEPT !.spent = @ \cup {recovery_code}]
                             ELSE mfaLog
                /\ response' = [BaseResp("verify_login_mfa") EXCEPT
                                   !.success = v.is_verified, !.item = recovery_code]
    /\ UNCHANGED <<users, FIRST_ADMIN_CREATED>>
    /\ UNCHANGED <<payVars, bankVars, hookVars>>

----------------------------------------------------------------------------
(* Initial state: an empty registry (PaymentService.__init__) and empty tables *)

Start(held) ==
    /\ providers = [t \in PaymentProvider |-> None]
    /\ default_provider = None
    /\ regLog = <<>>
    /\ payments = <<>>
    /\ createLog = <<>>
    /\ refunds = <<>>
    /\ methods = <<>>
    /\ txn = [w \in Workers |-> IdleTxn]
    /\ ret = Ret("init", 0, None, "ok", None)
    /\ items = <<>>
    /\ accounts = <<>>
    /\ transactions = <<>>
    /\ remote = [accounts |-> [a \in RailAccounts |-> held]]
    /\ users = <<>>
    /\ FIRST_ADMIN_CREATED = FALSE
    /\ mock_user = NewMockUser
    /\ mfaLog = [issued |-> 0, spent |-> {}]
    /\ deliveries = [worker |-> [w \in Workers |-> IdleDelivery], round |-> NoRound]
    /\ response = BaseResp("init")

\* The rail holding no account yet
Init == Start(FALSE)

\* The rail holding every account
InitRail == Start(TRUE)

PaymentIds == 1 .. MaxPayments

\* Payments and refunds, with the Stripe adapter registered under its own type
NextPay ==
    \/ \E t \in RegisteredPayTypes :
          providers[t] = None /\ register_provider(t, AdapterOf(t), TRUE, FALSE)
    \/ \E u \in Payers, a \in RequestAmounts, c \in RequestCurrencies, t \in PayTypes :
          create_payment(u, [amount |-> a, currency |-> c, provider |-> t])
    \/ \E i \in PaymentIds : sync_payment_status(i)
    \/ \E i \in PaymentIds : cancel_payment(i)
    \/ \E i \in PaymentIds, a \in RefundAmounts, u \in Users : create_refund(i, a, u)
    \/ \E i \in PaymentIds, s \in PaymentStatus :
          update_payment_status(i, s, None, None, None)

SpecPay == Init /\ [][NextPay]_vars

\* Payments and refunds through the service functions that call the adapter
NextRefund ==
    \/ \E t \in RegisteredPayTypes :
          providers[t] = None /\ register_provider(t, AdapterOf(t), TRUE, FALSE)
    \/ \E u \in Payers, a \in RequestAmounts, c \in RequestCurrencies, t \in PayTypes :
          create_payment(u, [amount |-> a, currency |-> c, provider |-> t])
    \/ \E i \in PaymentIds : sync_payment_status(i)
    \/ \E i \in PaymentIds : cancel_payment(i)
    \/ \E i \in PaymentIds, a \in RefundAmounts, u \in Users : create_refund(i, a, u)

SpecRefund == Init /\ [][NextRefund]_vars

MethodIds == 1 .. MaxMethods

\* Payment methods, one request at a time
NextPM ==
    \/ \E u \in Users, p \in MethodProviders, t \in PaymentMethodType, d \in BOOLEAN :
          create_payment_method(u, p, t, d)
    \/ \E m \in MethodIds, u \in Users : set_default_payment_method(m, u)
    \/ \E m \in MethodIds, u \in Users : delete_payment_method(m, u)

SpecPM == Init /\ [][NextPM]_vars

\* Owners and kinds of the methods of the concurrent requests
ConcUsers == {"u1"}

ConcTypes == {"credit_card"}

\* Payment methods, requests of several workers interleaved
NextPMConc ==
    \/ \E w \in Workers, u \in ConcUsers, p \in MethodProviders, t \in ConcTypes,
          d \in BOOLEAN : create_payment_method_read(w, u, p, t, d)
    \/ \E w \in Workers, m \in MethodIds, u \in Users :
          set_default_payment_method_read(w, m, u)
    \/ \E w \in Workers : commit(w)
    \/ \E m \in MethodIds, u \in Users : delete_payment_method(m, u)

SpecPMConc == Init /\ [][NextPMConc]_vars

\* The registry: registrations of each type with its own adapter, and facade calls
NextReg ==
    \/ \E t \in AdapterTypes, init_ok \in BOOLEAN, set_as_default \in BOOLEAN :
          register_provider(t, AdapterOf(t), init_ok, set_as_default)
    \/ \E op \in ServiceOps, t \in PaymentProvider \cup {None} : service_call(op, t)

SpecReg == Init /\ [][NextReg]_vars

\* Users of the banking requests
BankUsers == {"u1"}

\* Linking and syncing, the rail gaining and losing accounts in between
NextSync ==
    \/ \E user_id \in BankUsers, public_token \in PublicTokens :
           link_account(user_id, public_token)
    \/ \E item_id \in 1 .. MaxItems : sync_accounts(item_id)
    \/ \E item_id \in 1 .. MaxItems : sync_transactions(item_id)
    \/ \E item_id \in 1 .. MaxItems, current_user \in BankUsers :
           delete_plaid_item_endpoint(item_id, current_user)
    \/ \E a \in RailAccounts : rail_account_change(a)

SpecSync == Init /\ [][NextSync]_vars

\* Linking and webhooks, over a rail that holds every account
NextBank ==
    \/ \E user_id \in BankUsers, r \in RailItems : link_account(user_id, 2 * r - 1)
    \/ \E webhook_data \in BankPayloads : handle_plaid_webhook(webhook_data)

SpecBank == InitRail /\ [][NextBank]_vars

\* The webhook endpoint over every payload, the first item being linked in between
NextHook ==
    \/ \E webhook_data \in AllPayloads : handle_plaid_webhook(webhook_data)
    \/ \E user_id \in BankUsers : link_account(user_id, 1)

SpecHook == InitRail /\ [][NextHook]_vars

\* Linking, and the ITEM / ERROR events of the rail
NextItemError ==
    \/ \E user_id \in BankUsers, public_token \in PublicTokens :
          link_account(user_id, public_token)
    \/ \E webhook_data \in ItemErrorPayloads : handle_plaid_webhook(webhook_data)

SpecItemError == InitRail /\ [][NextItemError]_vars

\* The events of the redelivery runs: those of one item
RedeliveredPayloads ==
    {webhook_data \in BankPayloads \cup ItemErrorPayloads : webhook_data.item_id <= 1}

\* Linking of one item between rounds, and rounds of deliveries of one event
NextRedeliver ==
    \/ \E user_id \in BankUsers :
          /\ InFlight = {}
          /\ deliveries.round.started \in {0, MaxWorkers}
          /\ link_account(user_id, 1)
    \/ \E w \in Workers, webhook_data \in RedeliveredPayloads :
          handle_plaid_webhook_read(w, webhook_data)
    \/ \E w \in Workers : handle_plaid_webhook_load(w)
    \/ \E w \in Workers : handle_plaid_webhook_commit(w)

SpecRedeliver == InitRail /\ [][NextRedeliver]_vars

\* Registrations, deletions of users and restarts of the server
NextAuth ==
    \/ \E email \in Emails, is_admin \in BOOLEAN : register_user(email, is_admin)
    \/ \E user_id \in 1 .. MaxUsers : delete_user(user_id)
    \/ restart

SpecAuth == Init /\ [][NextAuth]_vars

\* The MFA functions called on one user
NextMfa ==
    \/ setup_mfa
    \/ \E code \in TotpCodes : enable_mfa(code)
    \/ \E code \in TotpCodes, recovery_code \in RecoveryArgs :
           disable_mfa(code, recovery_code)
    \/ \E code \in TotpCodes, recovery_code \in RecoveryArgs :
           verify_login_mfa(code, recovery_code)

SpecMfa == Init /\ [][NextMfa]_vars

----------------------------------------------------------------------------
(* Claims about payments and refunds, checked under SpecPay *)

C2_CancelRejected ==
    [][(/\ ret'.op = "cancel_payment"
        /\ ret'.pid \in DOMAIN payments
        /\ payments[ret'.pid].status \notin {"pending", "processing"})
       => (/\ ret'.result = "PaymentError"
           /\ ret'.adapter = None
           /\ UNCHANGED <<payments, refunds>>)]_vars

\* C2 witness: a cancel of a completed Payment was rejected
C2_Witness ==
    /\ ret.op = "cancel_payment"
    /\ ret.result = "PaymentError"
    /\ ret.pid \in DOMAIN payments
    /\ payments[ret.pid].status = "completed"

\* C3: create_refund on a Payment that is not completed, or by a requester who is not
\* its owner, raises PaymentError, calls no adapter, creates no Refund row and leaves
\* the Payment unchanged.
C3_RefundRejected ==
    [][(/\ ret'.op = "create_refund"
        /\ ret'.pid \in DOMAIN payments
        /\ \/ payments[ret'.pid].status # "completed"
           \/ payments[ret'.pid].user_id # ret'.user)
       => (/\ ret'.result = "PaymentError"
           /\ ret'.adapter = None
           /\ UNCHANGED <<payments, refunds>>)]_vars

\* C3 witness: a refund of a completed Payment requested by another user was rejected
C3_Witness ==
    /\ ret.op = "create_refund"
    /\ ret.result = "PaymentError"
    /\ ret.pid \in DOMAIN payments
    /\ payments[ret.pid].status = "completed"
    /\ payments[ret.pid].user_id # ret.user

C6_CreateAfterAdapter ==
    /\ [](\A i \in DOMAIN payments :
            /\ payments[i].external_id = createLog[i].payment_id
            /\ payments[i].external_id # 0
            /\ payments[i].amount = createLog[i].amount
            /\ payments[i].currency = createLog[i].currency)
    /\ [][(Len(payments') # Len(payments) =>
               /\ Len(payments') = Len(payments) + 1
               /\ ret'.op = "create_payment"
               /\ ret'.result = "ok"
               /\ ret'.adapter # None
               /\ payments'[Len(payments')].status = ret'.status)
           /\
           ((ret'.op = "create_payment" /\ ret'.result # "ok") =>
               payments' = payments)]_vars

\* C6 witness: a Stripe payment was created: the row holds the amount and currency the
\* adapter returned, which differ from the request's
C6_Witness ==
    /\ ret.op = "create_payment"
    /\ ret.result = "ok"
    /\ ret.adapter = "StripePaymentProvider"
    /\ payments[ret.pid].amount = 1000
    /\ payments[ret.pid].currency = "usd"
    /\ payments[ret.pid].external_id = ExtId(ret.pid)

Immutable(p) ==
    <<p.external_id, p.currency, p.amount, p.user_id, p.provider>>

\* C7: sync_payment_status, cancel_payment, create_refund and update_payment_status
\* never change a Payment's external id, currency, amount, owner or provider.
C7_ImmutableFields ==
    [][ret'.op \in {"sync_payment_status", "cancel_payment", "create_refund",
                    "update_payment_status"} =>
        /\ Len(payments') = Len(payments)
        /\ \A i \in DOMAIN payments :
               Immutable(payments'[i]) = Immutable(payments[i])]_vars

\* C7 witness: a sync has changed the status and the provider response of a Payment
C7_Witness ==
    /\ ret.op = "sync_payment_status"
    /\ ret.result = "ok"
    /\ payments[ret.pid].status = ret.status
    /\ payments[ret.pid].status = "completed"
    /\ payments[ret.pid].provider_response = "get"

\* The methods sharing (owner, provider, type) with row k of ms that are flagged default
DefaultsOf(ms, k) ==
    {j \in DOMAIN ms : /\ ms[j].user_id = ms[k].user_id
                        /\ ms[j].provider = ms[k].provider
                        /\ ms[j].type = ms[k].type
                        /\ ms[j].is_default}

\* C8: with payment-method requests served one at a time, at most one method per
\* (owner, provider, type) is flagged default in every state, and a successful
\* set_default_payment_method(m) leaves m as the one default of its triple.
C8_DefaultUnique ==
    /\ [](\A k \in DOMAIN methods : Cardinality(DefaultsOf(methods, k)) <= 1)
    /\ [][(ret'.op = "set_default_payment_method" /\ ret'.result = "ok") =>
            DefaultsOf(methods', ret'.pid) = {ret'.pid}]_vars

\* C8 witness: set_default_payment_method(m) succeeded after its query found another
\* method of the same triple flagged default; that one is cleared and m is the default.
C8_Witness ==
    /\ ret.op = "set_default_payment_method"
    /\ ret.result = "ok"
    /\ txn[1].op = "set_default_payment_method"
    /\ txn[1].method_id = ret.pid
    /\ \E j \in DOMAIN methods :
          /\ j # ret.pid
          /\ txn[1].existing_defaults = {j}
          /\ ~methods[j].is_default
    /\ DefaultsOf(methods, ret.pid) = {ret.pid}

\* C9: with default promotions of several workers interleaved, no committed state of
\* the table holds two methods of one (owner, provider, type) flagged default.
C9_NoTwoDefaultsCommitted ==
    \A j, k \in DOMAIN methods :
        (/\ methods[j].is_default
         /\ methods[k].is_default
         /\ methods[j].user_id = methods[k].user_id
         /\ methods[j].provider = methods[k].provider
         /\ methods[j].type = methods[k].type) => j = k

\* The type the successful registrations so far make the default: the most recent one
\* registered with set_as_default, else the first one
ExpectedDefault ==
    LET flagged == {k \in DOMAIN regLog : regLog[k].set_as_default}
    IN  IF regLog = <<>> THEN None
        ELSE IF flagged # {}
        THEN regLog[CHOOSE k \in flagged : \A j \in flagged : j <= k].type
        ELSE regLog[1].type

\* C10: the default provider is always the type of the most recent successful
\* registration made with set_as_default, else the first registered type; a facade call
\* with provider_type omitted is routed to the adapter registered under that type, and
\* one naming a type never registered ends in PaymentError with no adapter invoked.
C10_DefaultProvider ==
    /\ [](default_provider = ExpectedDefault)
    /\ [][ret'.op \in ServiceOps =>
            /\ (ret'.provider_type = None /\ regLog # <<>>) =>
                  (/\ ret'.result = "routed"
                   /\ ret'.adapter = providers[ExpectedDefault]
                   /\ ret'.adapter # None)
            /\ (/\ ret'.provider_type # None
                /\ \A k \in DOMAIN regLog : regLog[k].type # ret'.provider_type) =>
                  (ret'.result = "PaymentError" /\ ret'.adapter = None)]_vars

\* C10 witness: three registrations, the second one alone asking to be the default, and
\* a facade call with provider_type omitted routed to the second one's adapter.
C10_Witness ==
    /\ Len(regLog) = 3
    /\ ~regLog[1].set_as_default
    /\ regLog[2].set_as_default
    /\ ~regLog[3].set_as_default
    /\ regLog[1].type # regLog[2].type
    /\ regLog[3].type # regLog[2].type
    /\ ret.op \in ServiceOps
    /\ ret.provider_type = None
    /\ ret.result = "routed"
    /\ ret.adapter = AdapterOf(regLog[2].type)

----------------------------------------------------------------------------
(* Claims about linked items, accounts and webhooks, checked under SpecSync, SpecBank
   and SpecHook *)

\* The stored items with a rail item id
LinkedAs(r) == {i \in DOMAIN items : items[i].item_id = r}

\* C11: over link_account calls whose public tokens resolve to the same rail item id,
\* there is exactly one PlaidItem with that item id: the call that finds none creates
\* it, and every later call returns success false with the already-linked message and
\* creates or changes no row.
C11_LinkOnce ==
    /\ [](\A r \in RailItems : Cardinality(LinkedAs(r)) <= 1)
    /\ [][\A user_id \in BankUsers, public_token \in PublicTokens :
            LET r == ExchangedItem(public_token)
            IN  link_account(user_id, public_token) /\ response'.message # "error" =>
                    IF LinkedAs(r) # {}
                    THEN /\ ~response'.success
                         /\ response'.message = "already_linked"
                         /\ UNCHANGED <<items, accounts, transactions>>
                    ELSE /\ response'.success
                         /\ Cardinality({i \in DOMAIN items' : items'[i].item_id = r}) = 1
                         /\ \A i \in DOMAIN items : items'[i] = items[i]]_vars

\* A second link of an item that is stored once has been refused
C11_Witness ==
    /\ response.op = "link_account"
    /\ response.message = "already_linked"
    /\ response.item \in DOMAIN items
    /\ Cardinality(LinkedAs(items[response.item].item_id)) = 1

\* C12: sync_accounts run on an item right after a successful sync_accounts of the same
\* item, the rail's data unchanged, creates no PlaidAccount row: the table is as it was,
\* the run reports created 0 and updated = the number of accounts the rail holds for
\* the item, and no two rows ever share a provider account id.
C12_ResyncCreatesNothing ==
    /\ [](\A a, b \in DOMAIN accounts :
             accounts[a].account_id = accounts[b].account_id => a = b)
    /\ [][\A item_id \in 1 .. MaxItems :
            /\ response.op = "sync_accounts"
            /\ response.item = item_id
            /\ response.success
            /\ sync_accounts(item_id)
            => /\ accounts' = accounts
               /\ response'.created = 0
               /\ response'.success =>
                      response'.updated =
                          Cardinality(get_accounts(items[item_id].item_id))]_vars

\* A sync that found both accounts of the item stored and created none
C12_Witness ==
    /\ response.op = "sync_accounts"
    /\ response.success
    /\ response.created = 0
    /\ response.updated = 2
    /\ Cardinality(DOMAIN accounts) = 2

\* C13: sync_transactions run for an item with stored accounts upserts every fetched
\* transaction whose account is one of them by its provider transaction id, skips the
\* others, and returns success true.
C13_SyncTransactionsUpserts ==
    [][\A item_id \in DOMAIN items :
          sync_transactions(item_id) /\ get_item_accounts(item_id) # {} =>
              /\ response'.success
              /\ \A t \in ResolvableTransactions(item_id) :
                    \E x \in DOMAIN transactions' :
                       transactions'[x].transaction_id = t]_vars

\* C14: DELETE /banking/items/{id} by the item's owner removes the PlaidItem with all
\* its accounts and their transactions; for an id that is not stored it answers not
\* found (HTTP 404) and changes nothing.
C14_DeleteItemCascades ==
    [][\A item_id \in 1 .. MaxItems, current_user \in BankUsers :
          delete_plaid_item_endpoint(item_id, current_user) =>
              IF item_id \notin DOMAIN items
              THEN /\ response'.status = 404
                   /\ UNCHANGED <<items, accounts, transactions>>
              ELSE items[item_id].user_id = current_user =>
                      /\ items' = ItemsWithout(item_id)
                      /\ accounts' = AccountsWithout(item_id)
                      /\ transactions' = TransactionsWithout(item_id)]_vars

\* C15: handle_webhook classifies a payload with non-empty type, code and item id by
\* type and code alone: sync_transactions for TRANSACTIONS with INITIAL_UPDATE,
\* HISTORICAL_UPDATE, DEFAULT_UPDATE or TRANSACTIONS_REMOVED; update_item_error for
\* ITEM/ERROR; remove_item for ITEM/USER_PERMISSION_REVOKED; notify_user for
\* ITEM/PENDING_EXPIRATION and AUTH/VERIFICATION_EXPIRED; update_account_status for
\* AUTH/AUTOMATICALLY_VERIFIED; and requires_action false with no action otherwise.
C15_WebhookClassifier ==
    LET pair == <<response.webhook_type, response.webhook_code>>
        expected ==
            IF pair \in {<<"TRANSACTIONS", "INITIAL_UPDATE">>,
                         <<"TRANSACTIONS", "HISTORICAL_UPDATE">>,
                         <<"TRANSACTIONS", "DEFAULT_UPDATE">>,
                         <<"TRANSACTIONS", "TRANSACTIONS_REMOVED">>}
            THEN "sync_transactions"
            ELSE IF pair = <<"ITEM", "ERROR">> THEN "update_item_error"
            ELSE IF pair = <<"ITEM", "USER_PERMISSION_REVOKED">> THEN "remove_item"
            ELSE IF pair \in {<<"ITEM", "PENDING_EXPIRATION">>,
                              <<"AUTH", "VERIFICATION_EXPIRED">>}
            THEN "notify_user"
            ELSE IF pair = <<"AUTH", "AUTOMATICALLY_VERIFIED">>
            THEN "update_account_status"
            ELSE None
    IN  /\ response.op = "handle_plaid_webhook"
        /\ response.json
        /\ response.webhook_type # None
        /\ response.webhook_code # None
        /\ response.item # 0
        => /\ response.action = expected
           /\ response.requires_action = (expected # None)

\* An AUTH/VERIFICATION_EXPIRED payload has been classified, an item being linked
C15_Witness ==
    /\ response.op = "handle_plaid_webhook"
    /\ response.webhook_type = "AUTH"
    /\ response.webhook_code = "VERIFICATION_EXPIRED"
    /\ response.action = "notify_user"
    /\ response.item \in {items[i].item_id : i \in DOMAIN items}

\* C16: an ITEM / USER_PERMISSION_REVOKED webhook that names a linked item deletes that
\* PlaidItem with all its accounts and their transactions, leaves every other item,
\* account and transaction as it was, and is answered HTTP 200 with success true.
C16_RevokedRemovesItem ==
    [][\A r \in RailItems :
          LET gone == LinkedAs(r)
              gone_accounts == {a \in DOMAIN accounts : accounts[a].item \in gone}
              gone_transactions ==
                  {t \in DOMAIN transactions : transactions[t].account \in gone_accounts}
          IN  /\ handle_plaid_webhook(
                     WebhookData("ITEM", "USER_PERMISSION_REVOKED", r, "absent"))
              /\ gone # {}
              => /\ response'.status = 200
                 /\ response'.success
                 /\ DOMAIN items' = DOMAIN items \ gone
                 /\ DOMAIN accounts' = DOMAIN accounts \ gone_accounts
                 /\ DOMAIN transactions' = DOMAIN transactions \ gone_transactions
                 /\ \A i \in DOMAIN items' : items'[i] = items[i]
                 /\ \A a \in DOMAIN accounts' : accounts'[a] = accounts[a]
                 /\ \A t \in DOMAIN transactions' : transactions'[t] = transactions[t]]_vars

\* An item has been removed by the webhook while another item stays linked and the
\* rail still holds the removed item's accounts
C16_Witness ==
    /\ response.op = "handle_plaid_webhook"
    /\ response.webhook_code = "USER_PERMISSION_REVOKED"
    /\ response.success
    /\ LinkedAs(response.item) = {}
    /\ DOMAIN items # {}
    /\ \E a \in RailAccounts : remote.accounts[a] /\ RailItemOf(a) = response.item
    /\ DOMAIN accounts = {}

\* C17: POST /banking/webhook answers HTTP 200 with a body {success, message} whatever
\* the request body is: empty or not JSON, without its fields, naming an unknown item,
\* or one whose action handler fails.
C17_WebhookAlways200 ==
    [][\A webhook_data \in BankPayloads :
          handle_plaid_webhook(webhook_data) => response'.status = 200]_vars

----------------------------------------------------------------------------
(* Claims about registration, checked under SpecAuth, and about MFA, under SpecMfa *)

\* C18: a registration that asks for is_admin creates an admin only when no user
\* exists and no first admin has been recorded; every registration made once a user
\* exists creates a non-admin.
C18_FirstAdminOnly ==
    [][\A email \in Emails, is_admin \in BOOLEAN :
          register_user(email, is_admin) /\ response'.success =>
              LET created == users'[response'.item]
              IN  /\ created.is_admin =>
                        /\ is_admin
                        /\ DOMAIN users = {}
                        /\ ~FIRST_ADMIN_CREATED
                  /\ DOMAIN users # {} => ~created.is_admin]_vars

\* A registration made while the first admin exists has created a non-admin
C18_Witness ==
    /\ response.op = "register_user"
    /\ response.success
    /\ ~users[response.item].is_admin
    /\ FIRST_ADMIN_CREATED
    /\ \E u \in DOMAIN users : users[u].is_admin

\* C19: a recovery code verifies an MFA login at most once: when verify_login_mfa
\* succeeds with a recovery code, that code is marked used, and every later
\* verification that presents the same code without a valid TOTP code fails.
C19_RecoveryCodeOnce ==
    [][\A code \in TotpCodes \ {"valid"}, recovery_code \in RecoveryArgs \ {0} :
          verify_login_mfa(code, recovery_code) =>
              /\ response'.success /\ mock_user.mfa_enabled =>
                    \E k \in DOMAIN mock_user.recovery_codes :
                       /\ mock_user.recovery_codes[k].code = recovery_code
                       /\ ~mock_user.recovery_codes[k].used
                       /\ mock_user'.recovery_codes[k].used
              /\ recovery_code \in mfaLog.spent => ~response'.success]_vars

\* C19 as it holds: the same, the later verification being one made while MFA is
\* enabled (verify_login_mfa returns True for any arguments when it is not).
C19_RecoveryCodeOnceEnabled ==
    [][\A code \in TotpCodes \ {"valid"}, recovery_code \in RecoveryArgs \ {0} :
          verify_login_mfa(code, recovery_code) /\ mock_user.mfa_enabled =>
              /\ response'.success =>
                    \E k \in DOMAIN mock_user.recovery_codes :
                       /\ mock_user.recovery_codes[k].code = recovery_code
                       /\ ~mock_user.recovery_codes[k].used
                       /\ mock_user'.recovery_codes[k].used
              /\ recovery_code \in mfaLog.spent => ~response'.success]_vars

\* A login presenting a recovery code that verified an earlier login has been
\* refused, the code standing marked used
C19_Witness ==
    /\ response.op = "verify_login_mfa"
    /\ ~response.success
    /\ response.item \in mfaLog.spent
    /\ mock_user.mfa_enabled
    /\ \E k \in DOMAIN mock_user.recovery_codes :
          /\ mock_user.recovery_codes[k].code = response.item
          /\ mock_user.recovery_codes[k].used

----------------------------------------------------------------------------
(* Claims about failed refunds, checked under SpecPay *)

\* C20: when the adapter fails during create_refund on a completed Payment, the error
\* message and code are stored on the parent, its status stays completed, no Refund
\* row is created, and the error is raised again to the caller.
C20_RefundFailurePersisted ==
    [][(/\ ret'.op = "create_refund"
        /\ ret'.pid \in DOMAIN payments
        /\ ret'.adapter # None
        /\ ret'.result \notin {"ok", "IntegrityError"}) =>
        LET i == ret'.pid
        IN  /\ payments[i].status = "completed"
            /\ payments'[i].status = "completed"
            /\ payments'[i].error_message # None
            /\ payments'[i] = WithError(payments[i], payments'[i].error_message,
                                        payments'[i].error_code)
            /\ refunds' = refunds
            /\ ret'.result = "PaymentProviderError"]_vars

----------------------------------------------------------------------------
(* Claims about failed cancellations and syncs, checked under SpecPay *)

\* C21: when the adapter fails during cancel_payment on a pending or processing
\* Payment, the error message and code are stored on the record, its status is left as
\* it was and the error is raised again to the caller; the status becomes canceled
\* only when the adapter call succeeded.
C21_CancelFailurePersisted ==
    [][(/\ ret'.op = "cancel_payment"
        /\ ret'.pid \in DOMAIN payments
        /\ ret'.adapter # None) =>
        LET i == ret'.pid
        IN  /\ payments[i].status \in {"pending", "processing"}
            /\ IF ret'.result = "ok"
               THEN payments'[i] = Canceled(payments[i])
               ELSE /\ payments'[i].status = payments[i].status
                    /\ payments'[i].error_message # None
                    /\ payments'[i] = WithError(payments[i], payments'[i].error_message,
                                                payments'[i].error_code)
                    /\ ret'.result = "PaymentProviderError"]_vars

\* C22: sync_payment_status on an existing Payment never raises when the adapter call
\* fails: it stores the error message and code on the record, leaves the status as it
\* was and returns the record; when the adapter call succeeds the status and the
\* provider response of the record are the ones the adapter reported.
C22_SyncNeverRaises ==
    [][(/\ ret'.op = "sync_payment_status"
        /\ ret'.pid \in DOMAIN payments) =>
        LET i == ret'.pid
        IN  IF ret'.result = "ok"
            THEN payments'[i] = Synced(payments[i], ret'.status)
            ELSE /\ ret'.result = "error_recorded"
                 /\ payments'[i].status = payments[i].status
                 /\ payments'[i].error_message # None
                 /\ payments'[i] = WithError(payments[i], payments'[i].error_message,
                                             payments'[i].error_code)]_vars

----------------------------------------------------------------------------
(* Claims about failures while linking and syncing, checked under SpecSync *)

\* C23: link_account is all-or-nothing: when it returns success true the PlaidItem is
\* stored and every account the rail holds for it has a PlaidAccount row under it; when
\* it returns success false no PlaidItem or PlaidAccount row was added by the call.
C23_LinkAllOrNothing ==
    [][response'.op = "link_account" =>
        IF response'.success
        THEN /\ response'.item \in DOMAIN items'
             /\ response'.item \notin DOMAIN items
             /\ \A a \in get_accounts(items'[response'.item].item_id) :
                   \E k \in DOMAIN accounts' :
                      /\ accounts'[k].account_id = a
                      /\ accounts'[k].item = response'.item
        ELSE /\ items' = items
             /\ accounts' = accounts]_vars

\* C24: a failure while sync_accounts processes one fetched account does not abort the
\* sync: every other fetched account has its PlaidAccount row when the call returns
\* (and the call goes on to update the item's last-sync timestamp).
C24_SyncContinuesPastFailure ==
    [][(response'.op = "sync_accounts" /\ response'.failed # 0) =>
        \A a \in get_accounts(items[response'.item].item_id) \ {response'.failed} :
            \E k \in DOMAIN accounts' : accounts'[k].account_id = a]_vars

----------------------------------------------------------------------------
(* Claims about webhook processing, checked under SpecHook and SpecBank *)

\* C25: processing a TRANSACTIONS webhook (INITIAL_UPDATE, HISTORICAL_UPDATE,
\* DEFAULT_UPDATE or TRANSACTIONS_REMOVED) for a linked item runs the item's
\* transaction sync and reports the sync's own success and message as its result.
C25_TransactionsWebhookSyncs ==
    [][(/\ response'.op = "handle_plaid_webhook"
        /\ response'.json
        /\ response'.webhook_type = "TRANSACTIONS"
        /\ response'.webhook_code \in {"INITIAL_UPDATE", "HISTORICAL_UPDATE",
                                       "DEFAULT_UPDATE", "TRANSACTIONS_REMOVED"}
        /\ get_plaid_item_by_item_id(response'.item) # {}) =>
        LET id == CHOOSE i \in get_plaid_item_by_item_id(response'.item) : TRUE
            sync_result == SyncTransactionsResult(id)
        IN  /\ response'.success = sync_result.success
            /\ response'.message = sync_result.message]_vars

\* C26: processing an ITEM / ERROR webhook for a linked item stores the error payload
\* on the item and sets is_active to false exactly when the error code is
\* ITEM_LOGIN_REQUIRED or INVALID_CREDENTIALS; for any other error code the error is
\* stored and is_active is left as it was before the webhook.
C26_ItemErrorStored ==
    [][\A i \in RailItems, e \in WebhookErrors \ {"absent", "null"} :
          (/\ handle_plaid_webhook(WebhookData("ITEM", "ERROR", i, e))
           /\ get_plaid_item_by_item_id(i) # {}) =>
              LET id == CHOOSE k \in get_plaid_item_by_item_id(i) : TRUE
              IN  /\ response'.success
                  /\ items'[id].error = e
                  /\ items'[id].is_active =
                        IF e \in ReauthCodes THEN FALSE ELSE items[id].is_active]_vars

----------------------------------------------------------------------------
(* Claims about redelivered webhooks, checked under SpecRedeliver *)

\* C27: webhook processing is idempotent under re-delivery: when every delivery of an
\* event for an item has ended, whether they ran one after another or interleaved, the
\* PlaidItem, PlaidAccount and PlaidTransaction rows are those one delivery alone
\* leaves, and no rail item id, account id or transaction id is stored twice.
C27_RedeliveryIdempotent ==
    [][(RoundDone' /\ ~RoundDone) =>
        /\ items' = deliveries'.round.once.items
        /\ accounts' = deliveries'.round.once.accounts
        /\ transactions' = deliveries'.round.once.transactions
        /\ \A i, j \in DOMAIN items' :
              items'[i].item_id = items'[j].item_id => i = j
        /\ \A a, b \in DOMAIN accounts' :
              accounts'[a].account_id = accounts'[b].account_id => a = b
        /\ \A t, u \in DOMAIN transactions' :
              transactions'[t].transaction_id = transactions'[u].transaction_id
                  => t = u]_vars

\* C27 witness: the deliveries of an ITEM / ERROR event for a linked item overlapped,
\* all have ended, and the item holds the error with its accounts still stored
C27_Witness ==
    /\ RoundDone
    /\ deliveries.round.overlapped
    /\ deliveries.round.webhook_data.webhook_code = "ERROR"
    /\ deliveries.round.webhook_data.error = "ITEM_LOGIN_REQUIRED"
    /\ \E i \in DOMAIN items :
          /\ items[i].item_id = deliveries.round.webhook_data.item_id
          /\ items[i].error = "ITEM_LOGIN_REQUIRED"
          /\ ~items[i].is_active
          /\ get_item_accounts(i) # {}

----------------------------------------------------------------------------
(* Claims about repeated refunds, checked under SpecRefund *)

----------------------------------------------------------------------------
(* Claims about deleted payment methods, checked under SpecPM *)

\* C29: over create_payment_method, set_default_payment_method and
\* delete_payment_method, no PaymentMethod is both soft-deleted (is_active false) and
\* the default (is_default true).
C29_NoInactiveDefault ==
    \A m \in DOMAIN methods : ~(methods[m].is_default /\ ~methods[m].is_active)

----------------------------------------------------------------------------
(* Claims about the registry, checked under SpecReg *)

\* C30: default_provider is always unset or a key of the providers registry, and a
\* register_provider call whose adapter's initialize raises leaves the registry and
\* the default as they were.
C30_DefaultRegistered ==
    /\ [](default_provider = None \/ providers[default_provider] # None)
    /\ [][(ret'.op = "register_provider" /\ ret'.result = "PaymentError") =>
            UNCHANGED <<providers, default_provider>>]_vars

\* C30 witness: a registration has just failed in initialize, another type being
\* registered and the default
C30_Witness ==
    /\ ret.op = "register_provider"
    /\ ret.result = "PaymentError"
    /\ default_provider # None
    /\ providers[default_provider] # None
    /\ \E t \in AdapterTypes : providers[t] = None

=============================================================================
